---- MODULE Spec2Model ----
\* Marketplace backend (sail-server): category tree, attribute schema and
\* listing write endpoints, modelled from taxonomy/views.py and listings/views.py.
EXTENDS Integers, Sequences, FiniteSets, TLC

\* ---------------------------------------------------------------- bounds
\* Largest category primary key drawn for the taxonomy specifications.
MaxCat == 3
\* Number of HTTP requests handled in one behaviour of the listing specification.
MaxRequests == 2
\* Number of HTTP requests handled in one behaviour of the owner-endpoint specification.
MaxOwnerRequests == 4
\* Longest Accept-Language header drawn for the locale helper.
MaxHeaderLen == 3
\* Longest string drawn as an input of the coercion helpers.
MaxStrLen == 4
\* Number of times a coercion helper is applied to its own result.
MaxApplications == 2
\* Number of listing writes begun in one behaviour of the concurrent-read specification.
MaxConcWrites == 2
\* Number of recently-viewed tracking requests in one behaviour.
MaxTrackRequests == 2
\* Number of requests in one behaviour of the listing-status specification.
MaxStatusRequests == 3
\* favorite toggle requests handled in one behaviour
MaxToggleRequests == 4

\* ------------------------------------------------------- strings (code points)
\* A Python str is modelled as the sequence of its code points.
\* The string literals of the views, of the reference data and of the requests.
Str ==
    [ru |-> <<114, 117>>,
     uz |-> <<117, 122>>,
     en |-> <<101, 110>>,
     UZ_hdr |-> <<85, 90, 45, 85, 90>>,
     a |-> <<97>>,
     b |-> <<98>>,
     c |-> <<99>>,
     d |-> <<100>>,
     x |-> <<120>>,
     n1 |-> <<49>>,
     n2 |-> <<50>>,
     sp2 |-> <<32, 50, 32>>,
     color |-> <<99, 111, 108, 111, 114>>,
     size |-> <<115, 105, 122, 101>>,
     red |-> <<114, 101, 100>>,
     blue |-> <<98, 108, 117, 101>>,
     new |-> <<110, 101, 119>>,
     used |-> <<117, 115, 101, 100>>,
     sell |-> <<115, 101, 108, 108>>,
     exchange |-> <<101, 120, 99, 104, 97, 110, 103, 101>>,
     person |-> <<112, 101, 114, 115, 111, 110>>,
     business |-> <<98, 117, 115, 105, 110, 101, 115, 115>>,
     UZS |-> <<85, 90, 83>>,
     USD |-> <<85, 83, 68>>,
     n150_5 |-> <<49, 53, 48, 46, 53>>,
     abc |-> <<97, 98, 99>>,
     n7 |-> <<55>>,
     n41_3 |-> <<52, 49, 46, 51>>,
     n69_2 |-> <<54, 57, 46, 50>>,
     Yes_padded |-> <<32, 89, 101, 115, 32>>,
     true |-> <<116, 114, 117, 101>>,
     yes |-> <<121, 101, 115>>,
     on |-> <<111, 110>>,
     bogus |-> <<98, 111, 103, 117, 115>>,
     green |-> <<103, 114, 101, 101, 110>>,
     phone |-> <<43, 57, 57, 56, 57, 48, 49, 49, 49, 50, 50, 51, 51>>,
     alice |-> <<97, 108, 105, 99, 101>>,
     bob |-> <<98, 111, 98>>,
     True |-> <<84, 114, 117, 101>>,
     False |-> <<70, 97, 108, 115, 101>>,
     None |-> <<78, 111, 110, 101>>,
     UZ |-> <<85, 90>>,
     u |-> <<117>>,
     ru_RU |-> <<114, 117, 45, 82, 85>>,
     en_US |-> <<101, 110, 45, 85, 83>>,
     TRUE |-> <<84, 82, 85, 69>>,
     minus_7 |-> <<45, 55>>,
     yes_nl |-> <<121, 101, 115, 10>>]

IsDigit(c) == c \in 48..57
IsSpace(c) == c \in {9, 10, 11, 12, 13, 32}

RECURSIVE LStrip(_)
LStrip(s) == IF s # <<>> /\ IsSpace(Head(s)) THEN LStrip(Tail(s)) ELSE s

RECURSIVE RStrip(_)
RStrip(s) ==
    IF s # <<>> /\ IsSpace(s[Len(s)]) THEN RStrip(SubSeq(s, 1, Len(s) - 1)) ELSE s

\* str.strip()
Strip(s) == RStrip(LStrip(s))

\* str.lower() on the ASCII range
Lower(s) == [i \in 1..Len(s) |-> IF s[i] \in 65..90 THEN s[i] + 32 ELSE s[i]]

\* str.startswith(prefix)
StartsWith(s, p) == Len(s) >= Len(p) /\ SubSeq(s, 1, Len(p)) = p

\* a < b on str: lexicographic on the code-point sequences
RECURSIVE LexLess(_, _)
LexLess(a, b) ==
    IF b = <<>> THEN FALSE
    ELSE IF a = <<>> THEN TRUE
    ELSE IF Head(a) # Head(b) THEN Head(a) < Head(b)
    ELSE LexLess(Tail(a), Tail(b))

LexLeq(a, b) == a = b \/ LexLess(a, b)

AllDigits(s) == s # <<>> /\ \A i \in 1..Len(s) : IsDigit(s[i])

RECURSIVE DigitsValue(_)
DigitsValue(s) ==
    IF s = <<>> THEN 0 ELSE 10 * DigitsValue(SubSeq(s, 1, Len(s) - 1)) + (s[Len(s)] - 48)

\* ------------------------------------------------------------ JSON values
\* One record shape for every value a request body or a model field can hold.
\*   k = "null" | "bool" | "int" | "float" | "str" | "list"
\* A float is the decimal n / 10^e with no trailing zero in its fraction.
Null == [k |-> "null", b |-> FALSE, n |-> 0, e |-> 0, s |-> <<>>, l |-> <<>>]
BoolV(x) == [Null EXCEPT !.k = "bool", !.b = x]
IntV(x) == [Null EXCEPT !.k = "int", !.n = x]
FloatV(m, x) == [Null EXCEPT !.k = "float", !.n = m, !.e = x]
StrV(cp) == [Null EXCEPT !.k = "str", !.s = cp]
ListV(items) == [Null EXCEPT !.k = "list", !.l = items]

\* Python truth value of v (the `not v` / `if v` tests)
Truthy(v) ==
    CASE v.k = "null" -> FALSE
      [] v.k = "bool" -> v.b
      [] v.k = "int" -> v.n # 0
      [] v.k = "float" -> v.n # 0
      [] v.k = "str" -> v.s # <<>>
      [] v.k = "list" -> v.l # <<>>

RECURSIVE Normalize(_, _)
Normalize(m, x) ==
    IF x > 0 /\ m % 10 = 0 THEN Normalize(m \div 10, x - 1) ELSE FloatV(m, x)

Pow10(x) == IF x = 0 THEN 1 ELSE IF x = 1 THEN 10 ELSE IF x = 2 THEN 100 ELSE 1000

\* int(str): optional surrounding blanks, optional sign, decimal digits
ParseInt(s) ==
    LET t == Strip(s)
        neg == t # <<>> /\ Head(t) = 45
        body == IF t # <<>> /\ Head(t) \in {43, 45} THEN Tail(t) ELSE t
    IN  IF AllDigits(body)
        THEN [ok |-> TRUE, n |-> IF neg THEN 0 - DigitsValue(body) ELSE DigitsValue(body)]
        ELSE [ok |-> FALSE, n |-> 0]

\* int(v): ok = FALSE stands for the ValueError / TypeError the caller catches
ToInt(v) ==
    CASE v.k = "int" -> [ok |-> TRUE, n |-> v.n]
      [] v.k = "bool" -> [ok |-> TRUE, n |-> IF v.b THEN 1 ELSE 0]
      [] v.k = "float" -> [ok |-> TRUE, n |-> v.n \div Pow10(v.e)]
      [] v.k = "str" -> ParseInt(v.s)
      [] OTHER -> [ok |-> FALSE, n |-> 0]

DotAt(t) == IF \E i \in 1..Len(t) : t[i] = 46
            THEN CHOOSE i \in 1..Len(t) : t[i] = 46 /\ \A j \in 1..(i - 1) : t[j] # 46
            ELSE 0

\* float(str) for plain decimal literals: blanks, sign, digits, one optional point
ParseFloat(s) ==
    LET t == Strip(s)
        neg == t # <<>> /\ Head(t) = 45
        body == IF t # <<>> /\ Head(t) \in {43, 45} THEN Tail(t) ELSE t
        d == DotAt(body)
        ip == IF d = 0 THEN body ELSE SubSeq(body, 1, d - 1)
        fp == IF d = 0 THEN <<>> ELSE SubSeq(body, d + 1, Len(body))
        good == /\ ip \o fp # <<>>
                /\ \A i \in 1..Len(ip) : IsDigit(ip[i])
                /\ \A i \in 1..Len(fp) : IsDigit(fp[i])
        mag == DigitsValue(ip \o fp)
    IN  IF good
        THEN [ok |-> TRUE, v |-> Normalize(IF neg THEN 0 - mag ELSE mag, Len(fp))]
        ELSE [ok |-> FALSE, v |-> Null]

\* float(v): ok = FALSE stands for the exception the caller catches
ToFloat(v) ==
    CASE v.k = "float" -> [ok |-> TRUE, v |-> v]
      [] v.k = "int" -> [ok |-> TRUE, v |-> FloatV(v.n, 0)]
      [] v.k = "bool" -> [ok |-> TRUE, v |-> FloatV(IF v.b THEN 1 ELSE 0, 0)]
      [] v.k = "str" -> ParseFloat(v.s)
      [] OTHER -> [ok |-> FALSE, v |-> Null]

\* ------------------------------------------------------------------ state
VARIABLES
    cats,           \* Category table: id -> [parent, order, name, name_uz, name_ru]
    attrs,          \* Attribute table: set of [id, category, key, type, required, options]
    treeResp,       \* last response of GET categories
    schemaResp,     \* last response of GET categories/{id}/attributes
    listings,       \* Listing table: id -> row
    attrvals,       \* ListingAttributeValue table: set of [listing, key, value]
    media,          \* ListingMedia table: set of [id, listing, order]
    nextListingId,  \* auto-increment primary key of Listing
    nextMediaId,    \* auto-increment primary key of ListingMedia
    now,            \* timezone.now()
    nreq,           \* requests handled so far
    last,           \* the last listing request and its response
    call,           \* a helper function being called: its name and arguments
    ret,            \* what the called helper returned, one entry per application
    writer,         \* a listing write between two of its database commits
    seen,           \* last response of GET listings/{pk}
    track,          \* a POST recently-viewed/{listing_id} request in progress: where it
                    \* stands, the delays it slept (ms), what each write attempt met
    recent,         \* RecentlyViewedListing table: set of [user, session_key, listing]
    favorites,      \* FavoriteListing table: set of [id, user, listing]
    nextFavoriteId, \* auto-increment primary key of FavoriteListing
    toggle          \* the last POST favorites/{listing_id}/toggle, its response and
                    \* the FavoriteListing table as the request found it

taxVars == <<cats, attrs, treeResp, schemaResp>>
listVars == <<listings, attrvals, media, nextListingId, nextMediaId, now, nreq, last>>
fnVars == <<call, ret>>
concVars == <<writer, seen>>
togVars == <<favorites, nextFavoriteId, toggle>>
favVars == <<track, recent, togVars>>
vars == <<cats, attrs, treeResp, schemaResp, listings, attrvals, media,
          nextListingId, nextMediaId, now, nreq, last,
          call, ret, writer, seen, track, recent,
          favorites, nextFavoriteId, toggle>>

\* ------------------------------------------------------ taxonomy/views.py
\* _lang_from_request(request): `lang` is the ?lang= query parameter and `header`
\* the Accept-Language header, each Null when absent.
\* the header compared as sent: `.lower()` dropped
lang_from_request_case_sensitive(lang, header) ==
    IF lang = StrV(Str.ru) \/ lang = StrV(Str.uz) THEN lang.s
    ELSE LET h == IF Truthy(header) THEN header.s ELSE <<>>
         IN  IF StartsWith(h, Str.uz) THEN Str.uz ELSE Str.ru

lang_from_request(lang, header) ==
    IF lang = StrV(Str.ru) \/ lang = StrV(Str.uz) THEN lang.s
    ELSE LET h == Lower(IF Truthy(header) THEN header.s ELSE <<>>)
         IN  IF StartsWith(h, Str.uz) THEN Str.uz ELSE Str.ru

\* (c.name_uz if lang == "uz" else c.name_ru) or c.name
LocalName(c, lang) ==
    LET n == IF lang = Str.uz THEN c.name_uz ELSE c.name_ru
    IN  IF n # <<>> THEN n ELSE c.name

\* Category.objects.all().order_by("order", "name"): rows with equal (order, name)
\* come in an order the database chooses.
QsLeq(a, b) ==
    \/ cats[a].order < cats[b].order
    \/ cats[a].order = cats[b].order /\ LexLeq(cats[a].name, cats[b].name)

RECURSIVE QsOrders(_)
QsOrders(S) ==
    IF S = {} THEN {<<>>}
    ELSE UNION {{<<x>> \o t : t \in QsOrders(S \ {x})} :
                x \in {y \in S : \A z \in S : QsLeq(y, z)}}

\* the dict built for one category (lines 36-45 and 57-66)
NodeOf(id, lang, kids) ==
    [id |-> id, name |-> LocalName(cats[id], lang), order |-> cats[id].order,
     children |-> kids]

\* single-level mode: qs.filter(parent_id=pid), every node with children []
LevelNodes(qs, pid, lang) ==
    LET IsChild(id) == cats[id].parent = pid
        kids == SelectSeq(qs, IsChild)
    IN  [i \in 1..Len(kids) |-> NodeOf(kids[i], lang, <<>>)]

\* `c.parent_id and c.parent_id in nodes`
Attached(id) == cats[id].parent # 0 /\ cats[id].parent \in DOMAIN cats

\* nodes[c.parent_id]["children"].append(node), in queryset order
RECURSIVE LinkedNode(_, _, _)
LinkedNode(qs, id, lang) ==
    LET IsChild(c) == Attached(c) /\ cats[c].parent = id
        kids == SelectSeq(qs, IsChild)
    IN  NodeOf(id, lang, [i \in 1..Len(kids) |-> LinkedNode(qs, kids[i], lang)])

\* roots.append(node), in queryset order
LinkedRoots(qs, lang) ==
    LET IsRoot(c) == ~Attached(c)
        rs == SelectSeq(qs, IsRoot)
    IN  [i \in 1..Len(rs) |-> LinkedNode(qs, rs[i], lang)]

\* key=lambda n: (n.get("order", 0), n.get("name", ""))
NodeKeyLess(a, b) ==
    a.order < b.order \/ (a.order = b.order /\ LexLess(a.name, b.name))

\* list.sort is stable: x goes after every element that is not greater than it
RECURSIVE InsertNode(_, _)
InsertNode(sorted, x) ==
    IF sorted = <<>> THEN <<x>>
    ELSE IF NodeKeyLess(x, Head(sorted)) THEN <<x>> \o sorted
    ELSE <<Head(sorted)>> \o InsertNode(Tail(sorted), x)

RECURSIVE SortNodes(_)
SortNodes(arr) ==
    IF arr = <<>> THEN <<>>
    ELSE InsertNode(SortNodes(SubSeq(arr, 1, Len(arr) - 1)), arr[Len(arr)])

\* the sort applied to the roots only
sort_children_roots_only(arr) == SortNodes(arr)

RECURSIVE sort_children(_)
sort_children(arr) ==
    LET sorted == SortNodes(arr)
    IN  [i \in 1..Len(sorted) |->
            [sorted[i] EXCEPT !.children = sort_children(sorted[i].children)]]

NoTreeResp == [mode |-> "none", parent_id |-> Null, pid |-> 0, lang |-> Null,
               header |-> Null, lg |-> <<>>, status |-> 0, body |-> <<>>]

\* CategoriesTreeView.get
CategoriesTree(parent_id, lang, header, qs) ==
    LET lg == lang_from_request(lang, header)
        pid == IF parent_id.k = "str" THEN ParseInt(parent_id.s) ELSE [ok |-> FALSE, n |-> 0]
    IN  /\ treeResp.mode = "none"
        /\ treeResp' =
             IF Truthy(parent_id) /\ pid.ok
             THEN [mode |-> "level", parent_id |-> parent_id, pid |-> pid.n,
                   lang |-> lang, header |-> header, lg |-> lg, status |-> 200,
                   body |-> LevelNodes(qs, pid.n, lg)]
             ELSE [mode |-> "tree", parent_id |-> parent_id, pid |-> 0,
                   lang |-> lang, header |-> header, lg |-> lg, status |-> 200,
                   body |-> sort_children(LinkedRoots(qs, lg))]
        /\ UNCHANGED <<cats, attrs, schemaResp, listVars, fnVars, concVars, favVars>>

\* the client has read the response of GET categories
TreeDone ==
    /\ treeResp.mode # "none"
    /\ treeResp' = NoTreeResp
    /\ UNCHANGED <<cats, attrs, schemaResp, listVars, fnVars, concVars, favVars>>

\* ids = []; cur = cat; while cur is not None: ids.append(cur.id); cur = cur.parent
\* the walk stopped one step early: `while cur.parent is not None`
RECURSIVE AncestorWalk_stops_early(_)
AncestorWalk_stops_early(id) ==
    IF id = 0 \/ cats[id].parent = 0 THEN <<>>
    ELSE <<id>> \o AncestorWalk_stops_early(cats[id].parent)

RECURSIVE AncestorWalk(_)
AncestorWalk(id) ==
    IF id = 0 THEN <<>> ELSE <<id>> \o AncestorWalk(cats[id].parent)

SeqToSet(s) == {s[i] : i \in 1..Len(s)}

\* Attribute.objects.filter(category_id__in=ids).order_by("key"): rows with the
\* same key come in an order the database chooses.
RECURSIVE KeyOrders(_)
KeyOrders(S) ==
    IF S = {} THEN {<<>>}
    ELSE UNION {{<<x>> \o t : t \in KeyOrders(S \ {x})} :
                x \in {y \in S : \A z \in S : LexLeq(y.key, z.key)}}

AttrsOf(ids) == {a \in attrs : a.category \in SeqToSet(ids)}

NoSchemaResp == [op |-> "none", pk |-> 0, status |-> 0, ids |-> <<>>, body |-> <<>>]

\* CategoryAttributesView.get
CategoryAttributes(pk) ==
    /\ schemaResp.op = "none"
    /\ IF pk \notin DOMAIN cats
       THEN schemaResp' = [op |-> "attributes", pk |-> pk, status |-> 200,
                           ids |-> <<>>, body |-> <<>>]
       ELSE \E rows \in KeyOrders(AttrsOf(AncestorWalk(pk))) :
                schemaResp' = [op |-> "attributes", pk |-> pk, status |-> 200,
                               ids |-> AncestorWalk(pk), body |-> rows]
    /\ UNCHANGED <<cats, attrs, treeResp, listVars, fnVars, concVars, favVars>>

\* the client has read the response of GET categories/{id}/attributes
SchemaDone ==
    /\ schemaResp.op # "none"
    /\ schemaResp' = NoSchemaResp
    /\ UNCHANGED <<cats, attrs, treeResp, listVars, fnVars, concVars, favVars>>

\* ------------------------------------------------- initial states, inputs
\* k-th ancestor of c under the parent function p (0 once the root is passed)
RECURSIVE Up(_, _, _)
Up(p, c, k) == IF k = 0 \/ c = 0 THEN c ELSE Up(p, p[c], k - 1)

\* parent links over the ids 1..n that form a forest
Forests(n) == {p \in [1..n -> 0..n] : \A c \in 1..n : Up(p, c, n) = 0}

\* (order, name, name_uz, name_ru) of a category row
CatProfiles ==
    { [order |-> 0, name |-> Str.a, name_uz |-> Str.c, name_ru |-> <<>>],
      [order |-> 0, name |-> Str.b, name_uz |-> <<>>, name_ru |-> <<>>],
      [order |-> 0, name |-> Str.a, name_uz |-> <<>>, name_ru |-> Str.c],
      [order |-> 1, name |-> Str.a, name_uz |-> <<>>, name_ru |-> <<>>] }

CatRow(parent, prof) ==
    [parent |-> parent, order |-> prof.order, name |-> prof.name,
     name_uz |-> prof.name_uz, name_ru |-> prof.name_ru]

\* what one category may declare: at most one attribute per key
ColorDecls ==
    { [key |-> Str.color, type |-> "choice", required |-> FALSE, options |-> {Str.red, Str.blue}],
      [key |-> Str.color, type |-> "text", required |-> FALSE, options |-> {}] }
SizeDecls ==
    { [key |-> Str.size, type |-> "number", required |-> TRUE, options |-> {}] }
DeclSets ==
    { {},
      {d \in ColorDecls : d.type = "text"},
      SizeDecls,
      {d \in ColorDecls : d.type = "choice"} \cup SizeDecls }

AttrRow(cat, d) ==
    [id |-> 2 * cat - (IF d.key = Str.color THEN 1 ELSE 0), category |-> cat,
     key |-> d.key, type |-> d.type, required |-> d.required, options |-> d.options]

NoLast == [op |-> "none", user |-> 0, pk |-> 0, media_id |-> 0, data |-> <<>>,
           status |-> 0, err |-> "", msg |-> "", key |-> <<>>]

\* no helper call, no write and no tracking request in progress
NoCall == [fn |-> "none", a |-> Null, b |-> Null]
NoWriter == [pc |-> "idle", op |-> "none", user |-> 0, pk |-> 0, data |-> <<>>]
NoSeen == [pk |-> 0, status |-> 0, row |-> <<>>, attributes |-> {}]
NoTrack == [pc |-> "idle", user |-> 0, session_key |-> 0, listing_id |-> 0, attempt |-> 0,
            retry_delay |-> 0, slept |-> <<>>, outcomes |-> <<>>, status |-> 0]
NoToggle == [user |-> 0, listing_id |-> 0, status |-> 0, favorited |-> FALSE, before |-> {}]

\* no helper call, write or tracking request is under way
IdleInit ==
    /\ call = NoCall
    /\ ret = <<>>
    /\ writer = NoWriter
    /\ seen = NoSeen
    /\ track = NoTrack
    /\ recent = {}
    /\ favorites = {}
    /\ nextFavoriteId = 1
    /\ toggle = NoToggle

ListInit ==
    /\ listings = <<>>
    /\ attrvals = {}
    /\ media = {}
    /\ nextListingId = 1
    /\ nextMediaId = 1
    /\ now = 1
    /\ nreq = 0
    /\ last = NoLast

\* the reference data the listing specification runs against:
\* 1 (root: color choice, size number required) > 2 (color text); 3 (root, nothing)
FixedCats ==
    (1 :> CatRow(0, [order |-> 0, name |-> Str.a, name_uz |-> <<>>, name_ru |-> <<>>])) @@
    (2 :> CatRow(1, [order |-> 0, name |-> Str.b, name_uz |-> <<>>, name_ru |-> <<>>])) @@
    (3 :> CatRow(0, [order |-> 1, name |-> Str.c, name_uz |-> <<>>, name_ru |-> <<>>]))
FixedAttrs ==
    { AttrRow(1, [key |-> Str.color, type |-> "choice", required |-> FALSE,
                  options |-> {Str.red, Str.blue}]),
      AttrRow(1, [key |-> Str.size, type |-> "number", required |-> TRUE, options |-> {}]),
      AttrRow(2, [key |-> Str.color, type |-> "text", required |-> FALSE, options |-> {}]) }

ParentIdParams == {Null, StrV(<<>>), StrV(Str.n1), StrV(Str.sp2), StrV(Str.x)}
LangParams == {Null, StrV(Str.en)}
HeaderParams == {Null, StrV(Str.UZ_hdr)}

\* ------------------------------------------- specification: GET categories
InitTree ==
    /\ \E n \in 0..MaxCat : \E p \in Forests(n) : \E prof \in [1..n -> CatProfiles] :
           cats = [c \in 1..n |-> CatRow(p[c], prof[c])]
    /\ attrs = {}
    /\ treeResp = NoTreeResp
    /\ schemaResp = NoSchemaResp
    /\ ListInit
    /\ IdleInit

NextTree ==
    \/ \E qs \in QsOrders(DOMAIN cats) :
           \E parent_id \in ParentIdParams, lang \in LangParams, header \in HeaderParams :
               CategoriesTree(parent_id, lang, header, qs)
    \/ TreeDone

SpecTree == InitTree /\ [][NextTree]_vars

\* --------------------------- specification: GET categories/{id}/attributes
InitSchema ==
    /\ \E n \in 0..MaxCat : \E p \in Forests(n) : \E decl \in [1..n -> DeclSets] :
           /\ cats = [c \in 1..n |-> CatRow(p[c], [order |-> 0, name |-> Str.a,
                                                    name_uz |-> <<>>, name_ru |-> <<>>])]
           /\ attrs = UNION {{AttrRow(c, d) : d \in decl[c]} : c \in 1..n}
    /\ treeResp = NoTreeResp
    /\ schemaResp = NoSchemaResp
    /\ ListInit
    /\ IdleInit

NextSchema ==
    \/ \E pk \in 1..(MaxCat + 1) : CategoryAttributes(pk)
    \/ SchemaDone

SpecSchema == InitSchema /\ [][NextSchema]_vars

\* ------------------------------------------------ claims: schema resolution
ParentFn == [c \in DOMAIN cats |-> cats[c].parent]

\* the category itself and every category above it
SelfAndAncestors(c) ==
    {c} \cup {a \in DOMAIN cats :
                 \E k \in 1..Cardinality(DOMAIN cats) : Up(ParentFn, c, k) = a}

\* how far above c the category a sits (0 for c itself)
Distance(c, a) ==
    CHOOSE k \in 0..Cardinality(DOMAIN cats) : Up(ParentFn, c, k) = a

Resolved == schemaResp.op = "attributes" /\ schemaResp.pk \in DOMAIN cats

\* C6: the resolved schema of an existing category holds exactly one entry per
\* key, and that entry is the declaration closest to the category.
Cex_C6 ==
    Resolved =>
        LET body == schemaResp.body
        IN  /\ \A i, j \in 1..Len(body) : i # j => body[i].key # body[j].key
            /\ \A i \in 1..Len(body) :
                   \A a \in attrs :
                       (a.key = body[i].key /\ a.category \in SelfAndAncestors(schemaResp.pk))
                       => Distance(schemaResp.pk, body[i].category)
                              <= Distance(schemaResp.pk, a.category)

\* C7: resolving the schema of a category id that does not exist answers 404.
Cex_C7 ==
    (schemaResp.op = "attributes" /\ schemaResp.pk \notin DOMAIN cats)
        => schemaResp.status = 404

\* C8: for an existing category the walk collects exactly the category and its
\* ancestors, each once, and the response lists exactly the attributes declared
\* at those categories, each once, in ascending key order.
Thm_C8 ==
    Resolved =>
        LET ids == schemaResp.ids
            body == schemaResp.body
        IN  /\ SeqToSet(ids) = SelfAndAncestors(schemaResp.pk)
            /\ Len(ids) = Cardinality(SeqToSet(ids))
            /\ ids[1] = schemaResp.pk
            /\ SeqToSet(body) = {a \in attrs : a.category \in SelfAndAncestors(schemaResp.pk)}
            /\ Len(body) = Cardinality(SeqToSet(body))
            /\ \A i, j \in 1..Len(body) : i < j => LexLeq(body[i].key, body[j].key)

\* inherited attributes are listed while a category off the chain declares some
Wit_C8 ==
    /\ Resolved
    /\ Len(schemaResp.ids) >= 2
    /\ Len(schemaResp.body) >= 2
    /\ \E i \in 1..Len(schemaResp.body) : schemaResp.body[i].category # schemaResp.pk
    /\ \E a \in attrs : a.category \notin SeqToSet(schemaResp.ids)

\* --------------------------------------------------- claims: category tree
\* a sorts no later than b by (order, localized display name)
CatKeyLeq(a, b, lg) ==
    \/ cats[a].order < cats[b].order
    \/ /\ cats[a].order = cats[b].order
       /\ LexLeq(LocalName(cats[a], lg), LocalName(cats[b], lg))

RECURSIVE FlatIds(_)
FlatIds(nodes) ==
    IF nodes = <<>> THEN <<>>
    ELSE <<Head(nodes).id>> \o FlatIds(Head(nodes).children) \o FlatIds(Tail(nodes))

\* the nodes are exactly the categories under `parent` (0: the roots), in
\* ascending (order, localized name), and so on below each of them
RECURSIVE Placed(_, _, _)
Placed(nodes, parent, lg) ==
    /\ {nodes[i].id : i \in 1..Len(nodes)} =
           IF parent = 0
           THEN {c \in DOMAIN cats : cats[c].parent = 0 \/ cats[c].parent \notin DOMAIN cats}
           ELSE {c \in DOMAIN cats : cats[c].parent = parent}
    /\ \A i, j \in 1..Len(nodes) : i < j => CatKeyLeq(nodes[i].id, nodes[j].id, lg)
    /\ \A i \in 1..Len(nodes) : nodes[i].name = LocalName(cats[nodes[i].id], lg)
    /\ \A i \in 1..Len(nodes) : Placed(nodes[i].children, nodes[i].id, lg)

\* C9: full-tree assembly emits every category exactly once, under its parent
\* or as a root, every sibling list ascending by (order, localized name).
Thm_C9 ==
    treeResp.mode = "tree" =>
        /\ Placed(treeResp.body, 0, treeResp.lg)
        /\ SeqToSet(FlatIds(treeResp.body)) = DOMAIN cats
        /\ Len(FlatIds(treeResp.body)) = Cardinality(DOMAIN cats)

\* two siblings below a root whose default names sort the other way round
Wit_C9 ==
    /\ treeResp.mode = "tree"
    /\ \E i \in 1..Len(treeResp.body) :
           LET kids == treeResp.body[i].children
           IN  /\ Len(kids) = 2
               /\ cats[kids[1].id].order = cats[kids[2].id].order
               /\ LexLess(cats[kids[2].id].name, cats[kids[1].id].name)

\* C10: single-level mode returns exactly the direct children of the parent,
\* each with an empty child list, ascending by (order, localized name).
Cex_C10 ==
    treeResp.mode = "level" =>
        LET body == treeResp.body
        IN  /\ {body[i].id : i \in 1..Len(body)} =
                   {c \in DOMAIN cats : cats[c].parent = treeResp.pid}
            /\ Len(body) = Cardinality({body[i].id : i \in 1..Len(body)})
            /\ \A i \in 1..Len(body) : body[i].children = <<>>
            /\ \A i, j \in 1..Len(body) :
                   i < j => CatKeyLeq(body[i].id, body[j].id, treeResp.lg)

\* ------------------------------------------------------ listings: helpers
Users == {1, 2}
\* user.profile.phone_e164 (<<>> when the user has no profile) and user.username
ProfilePhone == (1 :> Str.phone) @@ (2 :> <<>>)
Username == (1 :> Str.alice) @@ (2 :> Str.bob)
\* primary keys of the Location table
Locations == {1, 2}

\* Listing.Condition / DealType / SellerType / Status values
ConditionChoices == {Str.new, Str.used}
DealTypeChoices == {Str.sell, Str.exchange}
SellerTypeChoices == {Str.person, Str.business}

\* data.get(k, default)
Get(data, k, default) == IF k \in DOMAIN data THEN data[k] ELSE default

\* `v not in dict(Choices)` negated: v is one of the enumeration's values
InChoices(v, choices) == v.k = "str" /\ v.s \in choices

\* the string compared untrimmed: `.strip()` dropped
to_bool_no_strip(v) ==
    CASE v.k = "bool" -> v.b
      [] v.k = "str" -> Lower(v.s) \in {Str.n1, Str.true, Str.yes, Str.on}
      [] OTHER -> FALSE

\* the isinstance(v, bool) branch dropped
to_bool_no_passthrough(v) ==
    CASE v.k = "str" -> Lower(Strip(v.s)) \in {Str.n1, Str.true, Str.yes, Str.on}
      [] OTHER -> FALSE

to_bool(v) ==
    CASE v.k = "bool" -> v.b
      [] v.k = "str" -> Lower(Strip(v.s)) \in {Str.n1, Str.true, Str.yes, Str.on}
      [] OTHER -> FALSE

to_float_or_none(v) ==
    IF v = Null \/ v = StrV(<<>>) THEN Null
    ELSE IF ToFloat(v).ok THEN ToFloat(v).v ELSE Null

\* the lookup without its user filter: Listing.objects.get(pk=pk)
OwnedAnyUser(user, pk) == pk \in DOMAIN listings

\* Listing.objects.get(pk=pk, user=request.user) finds a row
Owned(user, pk) == pk \in DOMAIN listings /\ listings[pk].user = user

\* ---------------------------------- serializers.py: _save_attributes (4.3, 4.4)
RECURSIVE Digits(_)
Digits(n) == IF n < 10 THEN <<48 + n>> ELSE Digits(n \div 10) \o <<48 + (n % 10)>>

\* str(v)
PyStr(v) ==
    CASE v.k = "str" -> v.s
      [] v.k = "bool" -> IF v.b THEN Str.True ELSE Str.False
      [] v.k = "int" -> IF v.n < 0 THEN <<45>> \o Digits(0 - v.n) ELSE Digits(v.n)
      [] OTHER -> Str.None

\* the schema of a category: per key, the declaration nearest to the category
ResolvedSchema(cat) ==
    LET ids == AncestorWalk(cat)
        pos(c) == CHOOSE i \in 1..Len(ids) : ids[i] = c
        cand == AttrsOf(ids)
    IN  {a \in cand : \A b \in cand : b.key = a.key => pos(a.category) <= pos(b.category)}

\* one submitted value against its declaration: ok = FALSE is a ValidationError,
\* has = FALSE is "no value"
CoerceAttr(a, v) ==
    CASE a.type = "boolean" -> [ok |-> TRUE, has |-> TRUE, v |-> BoolV(to_bool(v))]
      [] a.type = "number" ->
            IF v = Null \/ v = StrV(<<>>) THEN [ok |-> TRUE, has |-> FALSE, v |-> Null]
            ELSE IF ToFloat(v).ok THEN [ok |-> TRUE, has |-> TRUE, v |-> ToFloat(v).v]
            ELSE [ok |-> FALSE, has |-> FALSE, v |-> Null]
      [] a.type = "text" ->
            IF v.k = "str" THEN [ok |-> TRUE, has |-> TRUE, v |-> v]
            ELSE [ok |-> FALSE, has |-> FALSE, v |-> Null]
      [] a.type = "choice" ->
            IF PyStr(v) \in a.options THEN [ok |-> TRUE, has |-> TRUE, v |-> StrV(PyStr(v))]
            ELSE [ok |-> FALSE, has |-> FALSE, v |-> Null]

\* validate and coerce the submitted list against the schema of `cat`;
\* rows is the canonical {key, value} set to store
save_attributes(cat, items) ==
    LET schema == ResolvedSchema(cat)
        submitted == {items[i].key.s : i \in 1..Len(items)}
        lastOf(k) == items[CHOOSE i \in 1..Len(items) :
                              /\ items[i].key.s = k
                              /\ \A j \in (i + 1)..Len(items) : items[j].key.s # k].value
        decl(k) == CHOOSE a \in schema : a.key = k
        unknown == {k \in submitted : \A a \in schema : a.key # k}
        bad == {k \in submitted \ unknown : ~CoerceAttr(decl(k), lastOf(k)).ok}
        present == {k \in submitted \ unknown : CoerceAttr(decl(k), lastOf(k)).has}
        missing == {a.key : a \in {x \in schema : x.required /\ x.key \notin present}}
        first(S) == CHOOSE k \in S : \A z \in S : LexLeq(k, z)
    IN  IF unknown # {}
        THEN [ok |-> FALSE, msg |-> "unknown key", key |-> first(unknown), rows |-> {}]
        ELSE IF bad # {}
        THEN [ok |-> FALSE, msg |-> "invalid value", key |-> first(bad), rows |-> {}]
        ELSE IF missing # {}
        THEN [ok |-> FALSE, msg |-> "required", key |-> first(missing), rows |-> {}]
        ELSE [ok |-> TRUE, msg |-> "", key |-> <<>>,
              rows |-> {[key |-> k, value |-> CoerceAttr(decl(k), lastOf(k)).v] : k \in present}]

\* --------------------------------------------------- listings/views.py
Outcome(status, err, msg, key) ==
    [status |-> status, err |-> err, msg |-> msg, key |-> key]

Answer(op, user, pk, media_id, data, o) ==
    [op |-> op, user |-> user, pk |-> pk, media_id |-> media_id, data |-> data,
     status |-> o.status, err |-> o.err, msg |-> o.msg, key |-> o.key]

\* every request: one more request handled, the clock moves on
Handled ==
    /\ nreq' = nreq + 1
    /\ now' = now + 1
    /\ UNCHANGED <<taxVars, fnVars, concVars, favVars>>

\* the row Listing.objects.create(...) inserts (lines 233-247), then the phone
\* saved on it (lines 250-256)
NewListing(user, data) ==
    [user |-> user,
     title |-> Get(data, "title", Null),
     description |-> Get(data, "description", StrV(<<>>)),
     price_amount |-> ToFloat(Get(data, "price_amount", IntV(0))).v,
     price_currency |-> Get(data, "price_currency", StrV(Str.UZS)),
     is_price_negotiable |-> to_bool(Get(data, "is_price_negotiable", BoolV(FALSE))),
     condition |-> Get(data, "condition", StrV(Str.used)),
     deal_type |-> Get(data, "deal_type", StrV(Str.sell)),
     seller_type |-> Get(data, "seller_type", StrV(Str.person)),
     category_id |-> ToInt(Get(data, "category", Null)).n,
     location_id |-> ToInt(Get(data, "location", Null)).n,
     lat |-> to_float_or_none(Get(data, "lat", Null)),
     lon |-> to_float_or_none(Get(data, "lon", Null)),
     contact_phone_masked |->
         IF ProfilePhone[user] # <<>> THEN ProfilePhone[user] ELSE Username[user],
     contact_email |-> StrV(<<>>),
     contact_name |-> StrV(<<>>),
     contact_phone |-> StrV(<<>>),
     status |-> "active",
     refreshed_at |-> now]

\* the checks of ListingCreateRawView.post before the insert (lines 165-230):
\* the 400 response of the first one that fails, status 0 when all pass
CreateChecks(data) ==
    LET category == Get(data, "category", Null)
        location == Get(data, "location", Null)
    IN  IF \/ ~Truthy(Get(data, "title", Null))
           \/ ~Truthy(category)
           \/ ~Truthy(location)
        THEN Outcome(400, "detail", "required", <<>>)
        ELSE IF ~ToInt(category).ok
        THEN Outcome(400, "category", "Must be an integer id.", <<>>)
        ELSE IF ~ToInt(location).ok
        THEN Outcome(400, "location", "Must be an integer id.", <<>>)
        ELSE IF ToInt(category).n \notin DOMAIN cats
        THEN Outcome(400, "category", "Not found.", <<>>)
        ELSE IF ToInt(location).n \notin Locations
        THEN Outcome(400, "location", "Not found.", <<>>)
        ELSE IF ~ToFloat(Get(data, "price_amount", IntV(0))).ok
        THEN Outcome(400, "price_amount", "Must be a number.", <<>>)
        ELSE IF ~InChoices(Get(data, "condition", StrV(Str.used)), ConditionChoices)
        THEN Outcome(400, "condition", "Invalid.", <<>>)
        ELSE IF ~InChoices(Get(data, "deal_type", StrV(Str.sell)), DealTypeChoices)
        THEN Outcome(400, "deal_type", "Invalid.", <<>>)
        ELSE IF ~InChoices(Get(data, "seller_type", StrV(Str.person)), SellerTypeChoices)
        THEN Outcome(400, "seller_type", "Invalid.", <<>>)
        ELSE Outcome(0, "", "", <<>>)

\* the test create applies, applied by update too: `isinstance(...) and attributes`
IsNonEmptyList(attributes) == attributes.k = "list" /\ attributes.l # <<>>

\* isinstance(attributes, list)
IsList(attributes) == attributes.k = "list"

\* the three enumeration checks moved below Listing.objects.create(...)
CreateRaw_enums_after_insert(user, data) ==
    LET chk == CreateChecks(data)
        late == chk.err \in {"condition", "deal_type", "seller_type"}
        pk == nextListingId
        row == NewListing(user, data)
        attributes == Get(data, "attributes", ListV(<<>>))
        withAttrs == attributes.k = "list" /\ attributes.l # <<>>
        sv == save_attributes(row.category_id, attributes.l)
    IN  /\ IF chk.status # 0 /\ ~late
           THEN /\ last' = Answer("create", user, 0, 0, data, chk)
                /\ UNCHANGED <<listings, attrvals, nextListingId>>
           ELSE /\ listings' = listings @@ (pk :> row)
                /\ nextListingId' = pk + 1
                /\ IF late
                   THEN /\ attrvals' = attrvals
                        /\ last' = Answer("create", user, pk, 0, data, chk)
                   ELSE IF withAttrs /\ ~sv.ok
                   THEN /\ attrvals' = attrvals
                        /\ last' = Answer("create", user, pk, 0, data,
                                          Outcome(400, "attributes", sv.msg, sv.key))
                   ELSE /\ attrvals' = IF withAttrs
                                       THEN attrvals \cup
                                            {[listing |-> pk, key |-> r.key, value |-> r.value] :
                                                 r \in sv.rows}
                                       ELSE attrvals
                        /\ last' = Answer("create", user, pk, 0, data,
                                          Outcome(201, "", "", <<>>))
        /\ UNCHANGED <<media, nextMediaId>>
        /\ Handled

\* ListingCreateRawView.post. Each ORM call commits on its own: the view opens
\* no transaction.
CreateRaw(user, data) ==
    LET chk == CreateChecks(data)
        pk == nextListingId
        row == NewListing(user, data)
        attributes == Get(data, "attributes", ListV(<<>>))
        withAttrs == IsList(attributes) /\ Truthy(attributes)
        sv == save_attributes(row.category_id, attributes.l)
    IN  /\ IF chk.status # 0
           THEN /\ last' = Answer("create", user, 0, 0, data, chk)
                /\ UNCHANGED <<listings, attrvals, nextListingId>>
           ELSE /\ listings' = listings @@ (pk :> row)
                /\ nextListingId' = pk + 1
                /\ IF withAttrs /\ ~sv.ok
                   THEN /\ attrvals' = attrvals
                        /\ last' = Answer("create", user, pk, 0, data,
                                          Outcome(400, "attributes", sv.msg, sv.key))
                   ELSE /\ attrvals' = IF withAttrs
                                       THEN attrvals \cup
                                            {[listing |-> pk, key |-> r.key, value |-> r.value] :
                                                 r \in sv.rows}
                                       ELSE attrvals
                        /\ last' = Answer("create", user, pk, 0, data,
                                          Outcome(201, "", "", <<>>))
        /\ UNCHANGED <<media, nextMediaId>>
        /\ Handled

\* the checks of ListingUpdateRawView.patch (lines 290-309 and 332-354): the 400
\* response of the first one that fails, status 0 when all pass
UpdateChecks(data) ==
    LET title == Get(data, "title", Null)
        category == Get(data, "category", Null)
        location == Get(data, "location", Null)
    IN  IF title # Null /\ ~Truthy(title)
        THEN Outcome(400, "title", "Title cannot be empty.", <<>>)
        ELSE IF category # Null /\ ~ToInt(category).ok
        THEN Outcome(400, "category", "Must be an integer id.", <<>>)
        ELSE IF category # Null /\ ToInt(category).n \notin DOMAIN cats
        THEN Outcome(400, "category", "Not found.", <<>>)
        ELSE IF location # Null /\ ~ToInt(location).ok
        THEN Outcome(400, "location", "Must be an integer id.", <<>>)
        ELSE IF location # Null /\ ToInt(location).n \notin Locations
        THEN Outcome(400, "location", "Not found.", <<>>)
        ELSE IF "price_amount" \in DOMAIN data /\ ~ToFloat(data["price_amount"]).ok
        THEN Outcome(400, "price_amount", "Must be a number.", <<>>)
        ELSE IF "condition" \in DOMAIN data /\ ~InChoices(data["condition"], ConditionChoices)
        THEN Outcome(400, "condition", "Invalid.", <<>>)
        ELSE IF "deal_type" \in DOMAIN data /\ ~InChoices(data["deal_type"], DealTypeChoices)
        THEN Outcome(400, "deal_type", "Invalid.", <<>>)
        ELSE IF "seller_type" \in DOMAIN data
                /\ ~InChoices(data["seller_type"], SellerTypeChoices)
        THEN Outcome(400, "seller_type", "Invalid.", <<>>)
        ELSE Outcome(0, "", "", <<>>)

\* every key counts as sent: the `in data` test dropped
Present_always(data, k) == TRUE

\* `"k" in data`
Present(data, k) == k \in DOMAIN data

\* the listing as patch assigns it before listing.save() (lines 328-367)
UpdatedRow(row, data) ==
    [row EXCEPT
       !.title = IF Get(data, "title", Null) # Null THEN data["title"] ELSE @,
       !.description =
           IF Present(data, "description") THEN Get(data, "description", StrV(<<>>)) ELSE @,
       !.price_amount =
           IF Present(data, "price_amount")
           THEN ToFloat(Get(data, "price_amount", IntV(0))).v ELSE @,
       !.price_currency =
           IF Present(data, "price_currency")
           THEN Get(data, "price_currency", StrV(Str.UZS)) ELSE @,
       !.is_price_negotiable =
           IF Present(data, "is_price_negotiable")
           THEN to_bool(Get(data, "is_price_negotiable", Null)) ELSE @,
       !.condition = IF Present(data, "condition") THEN Get(data, "condition", Null) ELSE @,
       !.deal_type = IF Present(data, "deal_type") THEN Get(data, "deal_type", Null) ELSE @,
       !.seller_type =
           IF Present(data, "seller_type") THEN Get(data, "seller_type", Null) ELSE @,
       !.category_id =
           IF Get(data, "category", Null) # Null THEN ToInt(data["category"]).n ELSE @,
       !.location_id =
           IF Get(data, "location", Null) # Null THEN ToInt(data["location"]).n ELSE @,
       !.lat = IF Present(data, "lat") THEN to_float_or_none(Get(data, "lat", Null)) ELSE @,
       !.lon = IF Present(data, "lon") THEN to_float_or_none(Get(data, "lon", Null)) ELSE @,
       !.contact_email =
           IF Get(data, "contact_email", Null) # Null THEN data["contact_email"] ELSE @,
       !.contact_name =
           IF Get(data, "contact_name", Null) # Null THEN data["contact_name"] ELSE @,
       !.contact_phone =
           IF Get(data, "contact_phone", Null) # Null THEN data["contact_phone"] ELSE @]

\* ListingUpdateRawView.patch. listing.save() commits before the attribute list
\* is looked at: the view opens no transaction.
UpdateRaw(user, pk, data) ==
    LET chk == UpdateChecks(data)
        row == UpdatedRow(listings[pk], data)
        attributes == Get(data, "attributes", Null)
        withAttrs == IsList(attributes)
        sv == save_attributes(row.category_id, attributes.l)
    IN  /\ IF ~Owned(user, pk)
           THEN /\ last' = Answer("update", user, pk, 0, data,
                                  Outcome(404, "detail", "Not found", <<>>))
                /\ UNCHANGED <<listings, attrvals>>
           ELSE IF chk.status # 0
           THEN /\ last' = Answer("update", user, pk, 0, data, chk)
                /\ UNCHANGED <<listings, attrvals>>
           ELSE /\ listings' = [listings EXCEPT ![pk] = row]
                /\ IF withAttrs /\ ~sv.ok
                   THEN /\ attrvals' = attrvals
                        /\ last' = Answer("update", user, pk, 0, data,
                                          Outcome(400, "attributes", sv.msg, sv.key))
                   ELSE /\ attrvals' =
                             IF withAttrs
                             THEN {v \in attrvals : v.listing # pk} \cup
                                  {[listing |-> pk, key |-> r.key, value |-> r.value] :
                                       r \in sv.rows}
                             ELSE attrvals
                        /\ last' = Answer("update", user, pk, 0, data,
                                          Outcome(200, "", "", <<>>))
        /\ UNCHANGED <<media, nextMediaId, nextListingId>>
        /\ Handled

\* ListingRefreshView.post
Refresh(user, pk) ==
    /\ IF ~Owned(user, pk)
       THEN /\ last' = Answer("refresh", user, pk, 0, <<>>,
                              Outcome(404, "detail", "Not found", <<>>))
            /\ UNCHANGED listings
       ELSE /\ listings' = [listings EXCEPT ![pk].refreshed_at = now]
            /\ last' = Answer("refresh", user, pk, 0, <<>>, Outcome(200, "", "", <<>>))
    /\ UNCHANGED <<attrvals, media, nextMediaId, nextListingId>>
    /\ Handled

\* ListingDeactivateView.post
Deactivate(user, pk) ==
    /\ IF ~Owned(user, pk)
       THEN /\ last' = Answer("deactivate", user, pk, 0, <<>>,
                              Outcome(404, "detail", "Not found", <<>>))
            /\ UNCHANGED listings
       ELSE /\ listings' = [listings EXCEPT ![pk].status = "paused"]
            /\ last' = Answer("deactivate", user, pk, 0, <<>>, Outcome(200, "", "", <<>>))
    /\ UNCHANGED <<attrvals, media, nextMediaId, nextListingId>>
    /\ Handled

\* the status test of l.409 dropped: any owned listing is activated
Activate_unguarded(user, pk) ==
    /\ IF ~Owned(user, pk)
       THEN /\ last' = Answer("activate", user, pk, 0, <<>>,
                              Outcome(404, "detail", "Not found", <<>>))
            /\ UNCHANGED listings
       ELSE /\ listings' = [listings EXCEPT ![pk].status = "active",
                                            ![pk].refreshed_at = now]
            /\ last' = Answer("activate", user, pk, 0, <<>>, Outcome(200, "", "", <<>>))
    /\ UNCHANGED <<attrvals, media, nextMediaId, nextListingId>>
    /\ Handled

\* ListingActivateView.post
Activate(user, pk) ==
    /\ IF ~Owned(user, pk)
       THEN /\ last' = Answer("activate", user, pk, 0, <<>>,
                              Outcome(404, "detail", "Not found", <<>>))
            /\ UNCHANGED listings
       ELSE IF listings[pk].status \notin {"paused", "closed"}
       THEN /\ last' = Answer("activate", user, pk, 0, <<>>,
                              Outcome(400, "detail",
                                      "Can only activate paused or closed listings", <<>>))
            /\ UNCHANGED listings
       ELSE /\ listings' = [listings EXCEPT ![pk].status = "active",
                                            ![pk].refreshed_at = now]
            /\ last' = Answer("activate", user, pk, 0, <<>>, Outcome(200, "", "", <<>>))
    /\ UNCHANGED <<attrvals, media, nextMediaId, nextListingId>>
    /\ Handled

\* ListingDeleteView.delete: the row goes with its attribute values and media
Delete(user, pk) ==
    /\ IF ~Owned(user, pk)
       THEN /\ last' = Answer("delete", user, pk, 0, <<>>,
                              Outcome(404, "detail", "Not found", <<>>))
            /\ UNCHANGED <<listings, attrvals, media>>
       ELSE /\ listings' = [i \in DOMAIN listings \ {pk} |-> listings[i]]
            /\ attrvals' = {v \in attrvals : v.listing # pk}
            /\ media' = {m \in media : m.listing # pk}
            /\ last' = Answer("delete", user, pk, 0, <<>>, Outcome(200, "", "", <<>>))
    /\ UNCHANGED <<nextMediaId, nextListingId>>
    /\ Handled

\* ListingMediaUploadView.post: `file` tells whether request.FILES carries one
MediaUpload(user, pk, file) ==
    /\ IF ~Owned(user, pk)
       THEN /\ last' = Answer("media_upload", user, pk, 0, <<>>,
                              Outcome(404, "detail", "Not found", <<>>))
            /\ UNCHANGED <<media, nextMediaId>>
       ELSE IF ~file
       THEN /\ last' = Answer("media_upload", user, pk, 0, <<>>,
                              Outcome(400, "detail", "No file uploaded", <<>>))
            /\ UNCHANGED <<media, nextMediaId>>
       ELSE /\ media' = media \cup {[id |-> nextMediaId, listing |-> pk, order |-> 0]}
            /\ nextMediaId' = nextMediaId + 1
            /\ last' = Answer("media_upload", user, pk, nextMediaId, <<>>,
                              Outcome(201, "", "", <<>>))
    /\ UNCHANGED <<listings, attrvals, nextListingId>>
    /\ Handled

\* ListingMediaDeleteView.delete
MediaDelete(user, pk, media_id) ==
    /\ IF ~Owned(user, pk) \/ ~(\E m \in media : m.id = media_id /\ m.listing = pk)
       THEN /\ last' = Answer("media_delete", user, pk, media_id, <<>>,
                              Outcome(404, "detail", "Not found", <<>>))
            /\ UNCHANGED media
       ELSE /\ media' = {m \in media : m.id # media_id}
            /\ last' = Answer("media_delete", user, pk, media_id, <<>>,
                              Outcome(200, "", "", <<>>))
    /\ UNCHANGED <<listings, attrvals, nextMediaId, nextListingId>>
    /\ Handled

\* the primary key that v compares equal to (`media_id not in existing_ids`) and
\* that filter(id=media_id) looks up: 1 == True == 1.0 in Python; 0, which is no
\* primary key, when v equals no integer
PkOf(v) ==
    CASE v.k = "int" -> v.n
      [] v.k = "bool" -> IF v.b THEN 1 ELSE 0
      [] v.k = "float" -> IF Normalize(v.n, v.e).e = 0 THEN Normalize(v.n, v.e).n ELSE 0
      [] OTHER -> 0

\* the order each media row ends with: the last index at which its id is listed
ReorderedTo(m, ids) ==
    IF \E i \in 1..Len(ids) : PkOf(ids[i]) = m.id
    THEN (CHOOSE i \in 1..Len(ids) :
              PkOf(ids[i]) = m.id /\ \A j \in (i + 1)..Len(ids) : PkOf(ids[j]) # m.id) - 1
    ELSE m.order

\* ListingMediaReorderView.post: data is the request body
MediaReorder(user, pk, data) ==
    LET media_ids == Get(data, "media_ids", ListV(<<>>))
        existing_ids == {m.id : m \in {x \in media : x.listing = pk}}
        \* the items the verification loop stops at: one that cannot be hashed
        \* (`in` on a set raises TypeError) or one that is no id of the listing
        stops == IF media_ids.k # "list" THEN {}
                 ELSE {i \in 1..Len(media_ids.l) :
                           \/ media_ids.l[i].k = "list"
                           \/ PkOf(media_ids.l[i]) \notin existing_ids}
        first == CHOOSE i \in stops : \A j \in stops : i <= j
    IN  /\ IF ~Owned(user, pk)
           THEN /\ last' = Answer("media_reorder", user, pk, 0, data,
                                  Outcome(404, "detail", "Not found", <<>>))
                /\ UNCHANGED media
           ELSE IF media_ids.k # "list"
           THEN /\ last' = Answer("media_reorder", user, pk, 0, data,
                                  Outcome(400, "detail", "media_ids must be a list", <<>>))
                /\ UNCHANGED media
           ELSE IF stops # {} /\ media_ids.l[first].k = "list"
           THEN \* TypeError: unhashable type, the caller gets a 500
                /\ last' = Answer("media_reorder", user, pk, 0, data,
                                  Outcome(500, "TypeError", "unhashable type", <<>>))
                /\ UNCHANGED media
           ELSE IF stops # {}
           THEN /\ last' = Answer("media_reorder", user, pk, 0, data,
                                  Outcome(400, "detail", "does not belong", <<>>))
                /\ UNCHANGED media
           ELSE /\ media' = {IF m.listing = pk
                             THEN [m EXCEPT !.order = ReorderedTo(m, media_ids.l)]
                             ELSE m : m \in media}
                /\ last' = Answer("media_reorder", user, pk, 0, data,
                                  Outcome(200, "", "", <<>>))
        /\ UNCHANGED <<listings, attrvals, nextMediaId, nextListingId>>
        /\ Handled

\* ------------------------------------------------ listing request bodies
Item(k, v) == [key |-> StrV(k), value |-> v]
A_empty == ListV(<<>>)
A_good == ListV(<<Item(Str.size, StrV(Str.n7)), Item(Str.color, StrV(Str.red))>>)
A_green == ListV(<<Item(Str.size, IntV(7)), Item(Str.color, StrV(Str.green))>>)
A_unknown == ListV(<<Item(Str.bogus, StrV(Str.x))>>)
A_unparsable == ListV(<<Item(Str.size, StrV(Str.abc))>>)
A_unrequired == ListV(<<Item(Str.color, StrV(Str.blue))>>)

NoKeys == [k \in {} |-> Null]

CreateBase ==
    ("title" :> StrV(Str.a)) @@ ("category" :> IntV(1)) @@ ("location" :> IntV(1))

CreateExtras ==
    { NoKeys,
      "title" :> StrV(<<>>),
      "category" :> StrV(Str.n2), "category" :> IntV(3), "category" :> IntV(9),
      "category" :> StrV(Str.x), "category" :> Null,
      "location" :> IntV(9), "location" :> StrV(Str.x), "location" :> Null,
      "description" :> StrV(Str.d),
      "price_amount" :> StrV(Str.n150_5), "price_amount" :> StrV(Str.abc),
      "price_amount" :> Null,
      "price_currency" :> StrV(Str.USD),
      "is_price_negotiable" :> StrV(Str.Yes_padded),
      "condition" :> StrV(Str.new), "condition" :> StrV(Str.bogus),
      "deal_type" :> StrV(Str.bogus),
      "seller_type" :> StrV(Str.bogus),
      "lat" :> StrV(Str.n41_3), "lat" :> StrV(Str.abc),
      "attributes" :> A_empty, "attributes" :> A_good, "attributes" :> A_unknown,
      "attributes" :> A_unparsable, "attributes" :> A_unrequired }

CreatePayloads == {x @@ CreateBase : x \in CreateExtras}

UpdateSingles ==
    { NoKeys,
      "title" :> StrV(Str.b), "title" :> StrV(<<>>), "title" :> Null,
      "category" :> IntV(2), "category" :> IntV(3), "category" :> IntV(9),
      "category" :> StrV(Str.x),
      "location" :> IntV(2), "location" :> IntV(9),
      "description" :> StrV(Str.d),
      "price_amount" :> StrV(Str.n150_5), "price_amount" :> StrV(Str.abc),
      "price_currency" :> StrV(Str.USD),
      "is_price_negotiable" :> StrV(Str.Yes_padded),
      "condition" :> StrV(Str.new), "condition" :> StrV(Str.bogus),
      "deal_type" :> StrV(Str.exchange), "deal_type" :> StrV(Str.bogus),
      "seller_type" :> StrV(Str.business), "seller_type" :> StrV(Str.bogus),
      "lat" :> StrV(Str.n41_3), "lat" :> StrV(Str.abc),
      "lon" :> StrV(Str.n69_2),
      "contact_email" :> StrV(Str.a), "contact_name" :> StrV(Str.a),
      "contact_phone" :> StrV(Str.a),
      "attributes" :> A_empty, "attributes" :> A_good, "attributes" :> A_green,
      "attributes" :> A_unknown, "attributes" :> A_unparsable,
      "attributes" :> StrV(Str.x) }

\* one field, or a title or a category followed by a field that may be refused
UpdatePayloads ==
    UpdateSingles \cup
    {a @@ b : a \in {"title" :> StrV(Str.b), "category" :> IntV(2), "category" :> IntV(3)},
              b \in { "price_amount" :> StrV(Str.n150_5), "price_amount" :> StrV(Str.abc),
                      "condition" :> StrV(Str.bogus),
                      "attributes" :> A_empty, "attributes" :> A_green,
                      "attributes" :> A_unknown }}

\* --------------------------------- specification: listing create and update
Init ==
    /\ cats = FixedCats
    /\ attrs = FixedAttrs
    /\ treeResp = NoTreeResp
    /\ schemaResp = NoSchemaResp
    /\ ListInit
    /\ IdleInit

Next ==
    \/ /\ nreq < MaxRequests
       /\ \E user \in Users, data \in CreatePayloads : CreateRaw(user, data)
    \/ /\ nreq < MaxRequests
       /\ \E user \in Users, pk \in 1..nextListingId, data \in UpdatePayloads :
              UpdateRaw(user, pk, data)

Spec == Init /\ [][Next]_vars

\* ------------------------- specification: the owner-scoped listing endpoints
ReorderBodies ==
    { NoKeys,
      "media_ids" :> IntV(1),
      "media_ids" :> ListV(<<IntV(1)>>),
      "media_ids" :> ListV(<<IntV(2), IntV(1)>>),
      "media_ids" :> ListV(<<IntV(1), IntV(9)>>),
      "media_ids" :> ListV(<<ListV(<<IntV(1)>>)>>) }

NextOwner ==
    \/ /\ nreq < MaxOwnerRequests
       /\ \E user \in Users : CreateRaw(user, ("attributes" :> A_good) @@ CreateBase)
    \/ /\ nreq < MaxOwnerRequests
       /\ \E user \in Users, pk \in 1..nextListingId,
             data \in {"title" :> StrV(Str.b), "attributes" :> A_empty} :
              UpdateRaw(user, pk, data)
    \/ /\ nreq < MaxOwnerRequests
       /\ \E user \in Users, pk \in 1..nextListingId : Refresh(user, pk)
    \/ /\ nreq < MaxOwnerRequests
       /\ \E user \in Users, pk \in 1..nextListingId : Deactivate(user, pk)
    \/ /\ nreq < MaxOwnerRequests
       /\ \E user \in Users, pk \in 1..nextListingId : Activate(user, pk)
    \/ /\ nreq < MaxOwnerRequests
       /\ \E user \in Users, pk \in 1..nextListingId : Delete(user, pk)
    \/ /\ nreq < MaxOwnerRequests
       /\ \E user \in Users, pk \in 1..nextListingId, file \in BOOLEAN :
              MediaUpload(user, pk, file)
    \/ /\ nreq < MaxOwnerRequests
       /\ \E user \in Users, pk \in 1..nextListingId, media_id \in 1..nextMediaId :
              MediaDelete(user, pk, media_id)
    \/ /\ nreq < MaxOwnerRequests
       /\ \E user \in Users, pk \in 1..nextListingId, data \in ReorderBodies :
              MediaReorder(user, pk, data)

SpecOwner == Init /\ [][NextOwner]_vars

\* ------------------------------------------------ claims: listing writes
\* this step is the handling of one `op` request
Handles(op) == nreq' = nreq + 1 /\ last'.op = op

\* C1: a create that fails leaves no listing row and no attribute value of
\* that request behind.
Cex_C1 ==
    [][(Handles("create") /\ last'.status >= 400)
           => (listings' = listings /\ attrvals' = attrvals)]_vars

\* C2: an update that fails validation, in a listing field or in the attribute
\* list, leaves the stored listing and its stored attribute values as they were.
Cex_C2 ==
    [][(Handles("update") /\ last'.status = 400)
           => (listings' = listings /\ attrvals' = attrvals)]_vars

\* the payload key that carries each stored field ("" when no key does)
PayloadKey ==
    [title |-> "title", description |-> "description", price_amount |-> "price_amount",
     price_currency |-> "price_currency", is_price_negotiable |-> "is_price_negotiable",
     condition |-> "condition", deal_type |-> "deal_type", seller_type |-> "seller_type",
     category_id |-> "category", location_id |-> "location", lat |-> "lat", lon |-> "lon",
     contact_email |-> "contact_email", contact_name |-> "contact_name",
     contact_phone |-> "contact_phone", contact_phone_masked |-> "", user |-> "",
     status |-> "", refreshed_at |-> ""]

\* C3: a successful update changes only the listing fields whose keys the
\* payload carries, no other listing, and no attribute value unless the payload
\* carries an attribute list.
Thm_C3 ==
    [][(Handles("update") /\ last'.status = 200)
           => /\ DOMAIN listings' = DOMAIN listings
              /\ \A i \in DOMAIN listings :
                     \A f \in DOMAIN PayloadKey :
                         listings'[i][f] # listings[i][f]
                             => (i = last'.pk /\ PayloadKey[f] \in DOMAIN last'.data)
              /\ "attributes" \notin DOMAIN last'.data => attrvals' = attrvals]_vars

\* the scenario of the spec: only price_amount sent, on a listing that was
\* created with attribute values
Wit_C3 ==
    /\ last.op = "update"
    /\ last.status = 200
    /\ DOMAIN last.data = {"price_amount"}
    /\ listings[last.pk].price_amount = FloatV(1505, 1)
    /\ listings[last.pk].title = StrV(Str.a)
    /\ \E v \in attrvals : v.listing = last.pk /\ v.key = Str.size /\ v.value = FloatV(7, 0)

\* the create payload names a category or a location that does not exist
RefersToMissing(data) ==
    /\ Truthy(Get(data, "title", Null))
    /\ Truthy(Get(data, "category", Null))
    /\ Truthy(Get(data, "location", Null))
    /\ ToInt(data["category"]).ok
    /\ ToInt(data["location"]).ok
    /\ \/ ToInt(data["category"]).n \notin DOMAIN cats
       \/ ToInt(data["location"]).n \notin Locations

\* C4: creating a listing whose category (or location) id names no record
\* answers 404 and persists no listing.
Cex_C4 ==
    [][(Handles("create") /\ RefersToMissing(last'.data))
           => (last'.status = 404 /\ listings' = listings)]_vars

OwnerOps ==
    {"update", "refresh", "deactivate", "activate", "delete",
     "media_upload", "media_delete", "media_reorder"}

\* C5: an owner-scoped operation on a listing that is absent or belongs to
\* another user answers 404 and changes no listing, attribute value or media.
Thm_C5 ==
    [][(/\ nreq' = nreq + 1
        /\ last'.op \in OwnerOps
        /\ \/ last'.pk \notin DOMAIN listings
           \/ listings[last'.pk].user # last'.user)
           => /\ last'.status = 404
              /\ listings' = listings
              /\ attrvals' = attrvals
              /\ media' = media]_vars

\* another user's delete of a listing that has attribute values and media
Wit_C5 ==
    /\ last.op = "delete"
    /\ last.status = 404
    /\ last.pk \in DOMAIN listings
    /\ listings[last.pk].user # last.user
    /\ \E v \in attrvals : v.listing = last.pk
    /\ \E m \in media : m.listing = last.pk

\* ------------------------------------------ specification: helper functions
\* every string of at most n code points of A
RECURSIVE StringsUpTo(_, _)
StringsUpTo(A, n) ==
    IF n = 0 THEN {<<>>}
    ELSE LET S == StringsUpTo(A, n - 1)
         IN  S \cup {<<c>> \o t : c \in A, t \in {x \in S : Len(x) = n - 1}}

LangInputs ==
    {Null, StrV(<<>>), StrV(Str.ru), StrV(Str.uz), StrV(Str.en), StrV(Str.UZ), StrV(Str.u)}
\* absent, three full tags, and every string over u z U Z r -
HeaderInputs ==
    {Null, StrV(Str.UZ_hdr), StrV(Str.ru_RU), StrV(Str.en_US)}
        \cup {StrV(h) : h \in StringsUpTo({117, 122, 85, 90, 114, 45}, MaxHeaderLen)}

\* what a JSON body can hand to a coercion helper; the strings are those named
\* and every string over blank 1 o n O .
CoerceInputs ==
    {Null, BoolV(TRUE), BoolV(FALSE), IntV(0), IntV(1), IntV(7), FloatV(15, 1),
     ListV(<<>>), ListV(<<IntV(1)>>),
     StrV(Str.true), StrV(Str.TRUE), StrV(Str.yes), StrV(Str.Yes_padded), StrV(Str.yes_nl),
     StrV(Str.abc), StrV(Str.n150_5), StrV(Str.minus_7), StrV(Str.False)}
        \cup {StrV(x) : x \in StringsUpTo({32, 49, 111, 110, 79, 46}, MaxStrLen)}

FnCalls ==
    {[fn |-> "_lang_from_request", a |-> l, b |-> h] : l \in LangInputs, h \in HeaderInputs}
        \cup {[fn |-> f, a |-> v, b |-> Null] :
                  f \in {"to_bool", "to_float_or_none", "float"}, v \in CoerceInputs}

InitFn ==
    /\ cats = FixedCats
    /\ attrs = FixedAttrs
    /\ treeResp = NoTreeResp
    /\ schemaResp = NoSchemaResp
    /\ ListInit
    /\ call \in FnCalls
    /\ ret = <<>>
    /\ writer = NoWriter
    /\ seen = NoSeen
    /\ track = NoTrack
    /\ recent = {}
    /\ favorites = {}
    /\ nextFavoriteId = 1
    /\ toggle = NoToggle

\* what the helper returned (v), or that it raised
Returned(v) == [raised |-> FALSE, v |-> v]
Raised == [raised |-> TRUE, v |-> Null]

\* the argument of the next application: the call's, then the last result
NextArg == IF ret = <<>> THEN call.a ELSE ret[Len(ret)].v

MayApply == Len(ret) < MaxApplications /\ (ret # <<>> => ~ret[Len(ret)].raised)

LangFromRequest ==
    /\ call.fn = "_lang_from_request"
    /\ ret = <<>>
    /\ ret' = <<Returned(StrV(lang_from_request(call.a, call.b)))>>
    /\ UNCHANGED <<taxVars, listVars, call, concVars, favVars>>

ToBool ==
    /\ call.fn = "to_bool"
    /\ MayApply
    /\ ret' = Append(ret, Returned(BoolV(to_bool(NextArg))))
    /\ UNCHANGED <<taxVars, listVars, call, concVars, favVars>>

ToFloatOrNone ==
    /\ call.fn = "to_float_or_none"
    /\ MayApply
    /\ ret' = Append(ret, Returned(to_float_or_none(NextArg)))
    /\ UNCHANGED <<taxVars, listVars, call, concVars, favVars>>

\* float(v) as the views call it inside try/except
Float ==
    /\ call.fn = "float"
    /\ MayApply
    /\ ret' = Append(ret, IF ToFloat(NextArg).ok THEN Returned(ToFloat(NextArg).v) ELSE Raised)
    /\ UNCHANGED <<taxVars, listVars, call, concVars, favVars>>

NextFn == LangFromRequest \/ ToBool \/ ToFloatOrNone \/ Float

SpecFn == InitFn /\ [][NextFn]_vars

\* ------------------------------------------------ claims: locale, coercion
Supported == {Str.ru, Str.uz}
DefaultLocale == Str.ru

\* the code c is a prefix of the header, letter case aside
HeaderSelects(header, c) ==
    /\ header.k = "str"
    /\ Len(header.s) >= Len(c)
    /\ \A i \in 1..Len(c) : header.s[i] \in {c[i], c[i] - 32}

\* C11: locale resolution never fails and returns a supported locale: the lang
\* parameter when it is a supported code, else the supported code that prefixes
\* the Accept-Language header whatever its letter case, else the default.
Thm_C11 ==
    (call.fn = "_lang_from_request" /\ ret # <<>>)
        => /\ ~ret[1].raised
           /\ ret[1].v.k = "str"
           /\ ret[1].v.s \in Supported
           /\ IF call.a.k = "str" /\ call.a.s \in Supported
              THEN ret[1].v.s = call.a.s
              ELSE IF \E c \in Supported : HeaderSelects(call.b, c)
              THEN HeaderSelects(call.b, ret[1].v.s)
              ELSE ret[1].v.s = DefaultLocale

\* an unsupported lang parameter with an upper-case uz header resolves to uz
Wit_C11 ==
    /\ call.fn = "_lang_from_request"
    /\ call.a = StrV(Str.en)
    /\ call.b = StrV(Str.UZ_hdr)
    /\ ret = <<Returned(StrV(Str.uz))>>

\* ------------------------------------- claims: listing writes, continued
\* the schema of category `cat` declares a required attribute
RequiredKeys(cat) == {a.key : a \in {x \in ResolvedSchema(cat) : x.required}}

\* C12: a create that passes the listing checks, in a category whose schema has
\* a required attribute, with an empty attribute list, answers with the
\* required-field error that names the missing key, and does not succeed.
Cex_C12 ==
    [][(/\ Handles("create")
        /\ CreateChecks(last'.data).status = 0
        /\ Get(last'.data, "attributes", Null) = ListV(<<>>)
        /\ RequiredKeys(ToInt(last'.data["category"]).n) # {})
           => /\ last'.status = 400
              /\ last'.msg = "required"
              /\ last'.key \in RequiredKeys(ToInt(last'.data["category"]).n)]_vars

\* the stored attribute values of listing pk, as {key, value} pairs
ValuesOf(S, pk) == {[key |-> v.key, value |-> v.value] : v \in {x \in S : x.listing = pk}}

\* C13: an update that passes the listing checks and carries an attribute list,
\* empty or not, coerces it against the schema of the category the listing has
\* after the update and stores exactly that set in place of the old one; an
\* update that carries no list leaves every stored attribute value alone and
\* raises no attribute error.
Thm_C13 ==
    [][(/\ Handles("update")
        /\ last'.status # 404
        /\ UpdateChecks(last'.data).status = 0)
           => LET pk == last'.pk
                  category == Get(last'.data, "category", Null)
                  attributes == Get(last'.data, "attributes", Null)
                  sv == save_attributes(listings'[pk].category_id, attributes.l)
              IN  /\ category # Null => listings'[pk].category_id = ToInt(category).n
                  /\ {x \in attrvals' : x.listing # pk} = {x \in attrvals : x.listing # pk}
                  /\ IF attributes.k = "list"
                     THEN IF sv.ok
                          THEN last'.status = 200 /\ ValuesOf(attrvals', pk) = sv.rows
                          ELSE last'.status = 400 /\ last'.err = "attributes"
                     ELSE last'.status = 200 /\ attrvals' = attrvals]_vars

\* a listing created in category 1 with size and color is moved to category 3,
\* whose schema is empty, with an empty attribute list: its values are gone
Wit_C13 ==
    /\ last.op = "update"
    /\ last.status = 200
    /\ last.data = ("category" :> IntV(3)) @@ ("attributes" :> ListV(<<>>))
    /\ listings[last.pk].category_id = 3
    /\ ValuesOf(attrvals, last.pk) = {}
    /\ nreq = 2

\* ------------------- specification: a listing write and concurrent reads
\* Each ORM call of a raw write view commits by itself, so a GET listings/{pk}
\* served by another worker can run between any two of them.

\* user.profile.phone_e164 if the profile has one, else user.username
PhoneOf(user) == IF ProfilePhone[user] # <<>> THEN ProfilePhone[user] ELSE Username[user]

\* the values _save_attributes leaves stored for listing pk
SavedValues(pk, sv) ==
    {v \in attrvals : v.listing # pk}
        \cup {[listing |-> pk, key |-> r.key, value |-> r.value] : r \in sv.rows}

\* the request has been answered
Responds(op, user, pk, data, o) ==
    /\ last' = Answer(op, user, pk, 0, data, o)
    /\ nreq' = nreq + 1
    /\ now' = now + 1

\* ListingCreateRawView.post up to Listing.objects.create(...) (l.161-247)
ConcCreateInsert(user, data) ==
    LET chk == CreateChecks(data)
        pk == nextListingId
    IN  /\ writer.pc = "idle"
        /\ IF chk.status # 0
           THEN /\ Responds("create", user, 0, data, chk)
                /\ UNCHANGED <<listings, nextListingId, writer>>
           ELSE /\ listings' =
                      listings @@ (pk :> [NewListing(user, data) EXCEPT
                                              !.contact_phone_masked = <<>>])
                /\ nextListingId' = pk + 1
                /\ writer' = [pc |-> "phone", op |-> "create", user |-> user,
                              pk |-> pk, data |-> data]
                /\ UNCHANGED <<last, nreq, now>>
        /\ UNCHANGED <<taxVars, attrvals, media, nextMediaId, fnVars, seen, favVars>>

\* listing.save(update_fields=["contact_phone_masked"]) (l.250-256)
ConcCreatePhone ==
    /\ writer.pc = "phone"
    /\ listings' = [listings EXCEPT ![writer.pk].contact_phone_masked = PhoneOf(writer.user)]
    /\ writer' = [writer EXCEPT !.pc = "attributes"]
    /\ UNCHANGED <<taxVars, attrvals, media, nextListingId, nextMediaId, now, nreq, last,
                   fnVars, seen, favVars>>

\* the attribute list of the create, and its response (l.258-267)
ConcCreateAttributes ==
    LET attributes == Get(writer.data, "attributes", ListV(<<>>))
        withAttrs == IsList(attributes) /\ Truthy(attributes)
        sv == save_attributes(listings[writer.pk].category_id, attributes.l)
    IN  /\ writer.pc = "attributes"
        /\ writer.op = "create"
        /\ IF withAttrs /\ ~sv.ok
           THEN /\ attrvals' = attrvals
                /\ Responds("create", writer.user, writer.pk, writer.data,
                            Outcome(400, "attributes", sv.msg, sv.key))
           ELSE /\ attrvals' = IF withAttrs THEN SavedValues(writer.pk, sv) ELSE attrvals
                /\ Responds("create", writer.user, writer.pk, writer.data,
                            Outcome(201, "", "", <<>>))
        /\ writer' = NoWriter
        /\ UNCHANGED <<taxVars, listings, media, nextListingId, nextMediaId,
                       fnVars, seen, favVars>>

\* ListingUpdateRawView.patch up to listing.save() (l.273-369)
ConcUpdateSave(user, pk, data) ==
    LET chk == UpdateChecks(data)
    IN  /\ writer.pc = "idle"
        /\ IF ~Owned(user, pk)
           THEN /\ Responds("update", user, pk, data, Outcome(404, "detail", "Not found", <<>>))
                /\ UNCHANGED <<listings, writer>>
           ELSE IF chk.status # 0
           THEN /\ Responds("update", user, pk, data, chk)
                /\ UNCHANGED <<listings, writer>>
           ELSE /\ listings' = [listings EXCEPT ![pk] = UpdatedRow(listings[pk], data)]
                /\ writer' = [pc |-> "attributes", op |-> "update", user |-> user,
                              pk |-> pk, data |-> data]
                /\ UNCHANGED <<last, nreq, now>>
        /\ UNCHANGED <<taxVars, attrvals, media, nextListingId, nextMediaId,
                       fnVars, seen, favVars>>

\* the attribute list of the update, and its response (l.371-381)
ConcUpdateAttributes ==
    LET attributes == Get(writer.data, "attributes", Null)
        withAttrs == IsList(attributes)
        sv == save_attributes(listings[writer.pk].category_id, attributes.l)
    IN  /\ writer.pc = "attributes"
        /\ writer.op = "update"
        /\ IF withAttrs /\ ~sv.ok
           THEN /\ attrvals' = attrvals
                /\ Responds("update", writer.user, writer.pk, writer.data,
                            Outcome(400, "attributes", sv.msg, sv.key))
           ELSE /\ attrvals' = IF withAttrs THEN SavedValues(writer.pk, sv) ELSE attrvals
                /\ Responds("update", writer.user, writer.pk, writer.data,
                            Outcome(200, "", "", <<>>))
        /\ writer' = NoWriter
        /\ UNCHANGED <<taxVars, listings, media, nextListingId, nextMediaId,
                       fnVars, seen, favVars>>

\* ListingDetailView (RetrieveAPIView): the listing row and its attribute values
Detail(pk) ==
    /\ seen = NoSeen
    /\ seen' = IF pk \in DOMAIN listings
               THEN [pk |-> pk, status |-> 200, row |-> <<listings[pk]>>,
                     attributes |-> {[key |-> v.key, value |-> v.value] :
                                         v \in {x \in attrvals : x.listing = pk}}]
               ELSE [pk |-> pk, status |-> 404, row |-> <<>>, attributes |-> {}]
    /\ UNCHANGED <<taxVars, listVars, fnVars, writer, favVars>>

\* the client has read the response of GET listings/{pk}
DetailDone ==
    /\ seen # NoSeen
    /\ seen' = NoSeen
    /\ UNCHANGED <<taxVars, listVars, fnVars, writer, favVars>>

ConcCreatePayloads ==
    { CreateBase, ("attributes" :> A_good) @@ CreateBase,
      ("attributes" :> A_unknown) @@ CreateBase, ("title" :> StrV(<<>>)) @@ CreateBase }
ConcUpdatePayloads ==
    { "title" :> StrV(Str.b), "condition" :> StrV(Str.bogus),
      "attributes" :> A_empty, "attributes" :> A_unknown,
      ("category" :> IntV(2)) @@ ("attributes" :> A_green) }

NextConc ==
    \/ /\ nreq < MaxConcWrites
       /\ \E user \in Users, data \in ConcCreatePayloads : ConcCreateInsert(user, data)
    \/ ConcCreatePhone
    \/ ConcCreateAttributes
    \/ /\ nreq < MaxConcWrites
       /\ \E user \in Users, pk \in 1..nextListingId, data \in ConcUpdatePayloads :
              ConcUpdateSave(user, pk, data)
    \/ ConcUpdateAttributes
    \/ \E pk \in 1..nextListingId : Detail(pk)
    \/ DetailDone

SpecConc == Init /\ [][NextConc]_vars

\* ------------------------------------------------ claims: concurrent reads
\* the listing of the write in flight as that write leaves it when it answers
WriteEnd ==
    LET attributes == Get(writer.data, "attributes", Null)
        withAttrs == IF writer.op = "create"
                     THEN IsList(attributes) /\ Truthy(attributes)
                     ELSE IsList(attributes)
        sv == save_attributes(listings[writer.pk].category_id, attributes.l)
    IN  [row |-> IF writer.op = "create"
                 THEN [listings[writer.pk] EXCEPT
                           !.contact_phone_masked = PhoneOf(writer.user)]
                 ELSE listings[writer.pk],
         attributes |-> IF withAttrs /\ sv.ok THEN sv.rows
                        ELSE ValuesOf(attrvals, writer.pk)]

\* C14: a read of a listing served while a write of that listing is in flight
\* sees the listing as the write leaves it, never a state in between.
Cex_C14 ==
    [][(/\ seen = NoSeen
        /\ seen' # NoSeen
        /\ writer.pc # "idle"
        /\ seen'.pk = writer.pk)
           => /\ seen'.row = <<WriteEnd.row>>
              /\ seen'.attributes = WriteEnd.attributes]_vars

\* the error keys of the listing-level checks of create
ListingLevelErrors ==
    {"detail", "category", "location", "price_amount", "condition", "deal_type",
     "seller_type"}

\* C15: a create answered 400 by a listing-level check (required field, integer
\* id, existing category and location, numeric price, the three enumerations)
\* has inserted no listing row and stored no attribute value.
Thm_C15 ==
    [][(/\ Handles("create")
        /\ last'.status = 400
        /\ last'.err \in ListingLevelErrors)
           => /\ listings' = listings
              /\ nextListingId' = nextListingId
              /\ attrvals' = attrvals]_vars

\* after one listing was created, a create with a condition outside the
\* enumeration is refused and the table still holds that one listing
Wit_C15 ==
    /\ last.op = "create"
    /\ last.status = 400
    /\ last.err = "condition"
    /\ nreq = 2
    /\ DOMAIN listings = {1}
    /\ nextListingId = 2

\* the listing-level numeric fields
NumericKeys == {"price_amount", "lat", "lon"}

\* an empty or null submission, and one that float() cannot parse
IsNoValue(v) == v = Null \/ v = StrV(<<>>)
IsUnparsable(v) == ~IsNoValue(v) /\ ~ToFloat(v).ok

\* C16: in a create or an update, a numeric field submitted empty or null is
\* taken as "no value" and draws no error for that field, and a numeric field
\* whose value cannot be parsed makes the request fail: it is never accepted.
Cex_C16 ==
    [][(Handles("create") \/ Handles("update"))
           => \A k \in NumericKeys \cap DOMAIN last'.data :
                  /\ IsNoValue(last'.data[k]) => last'.err # k
                  /\ IsUnparsable(last'.data[k]) => last'.status >= 400]_vars

\* ------------------------------------------------------ claims: coercion
TruthyTokens == {Str.n1, Str.true, Str.yes, Str.on}

UpperOf(c) == IF c \in 97..122 THEN c - 32 ELSE c

\* s is the token t, in any letter case, with nothing but blanks around it
Spells(s, t) ==
    \E i \in 1..(Len(s) + 1) :
        /\ i + Len(t) - 1 <= Len(s)
        /\ \A p \in 1..(i - 1) : IsSpace(s[p])
        /\ \A q \in 1..Len(t) : s[i + q - 1] \in {t[q], UpperOf(t[q])}
        /\ \A p \in (i + Len(t))..Len(s) : IsSpace(s[p])

\* C17: to_bool never fails; it returns a boolean as it is, is true of a string
\* exactly when the string trimmed and lower-cased is 1, true, yes or on, and
\* is false of every other value.
Thm_C17 ==
    (call.fn = "to_bool" /\ ret # <<>>)
        => /\ ~ret[1].raised
           /\ ret[1].v =
                  BoolV(CASE call.a.k = "bool" -> call.a.b
                          [] call.a.k = "str" -> \E t \in TruthyTokens : Spells(call.a.s, t)
                          [] OTHER -> FALSE)

\* " Yes " is true
Wit_C17 ==
    /\ call.fn = "to_bool"
    /\ call.a = StrV(Str.Yes_padded)
    /\ ret # <<>>
    /\ ret[1] = Returned(BoolV(TRUE))

max_retries == 3
\* retry_delay = 0.1 seconds, in milliseconds
initial_retry_delay == 100

\* the delay never grows: `retry_delay *= 2` dropped
NextDelay_fixed(d) == d

\* retry_delay *= 2
NextDelay(d) == d * 2

\* the key request.session.create() gives a session that has none
FreshSessionKey == 2 + nreq

\* the row update_or_create looks up: by user for an authenticated request,
\* by session key for an anonymous one
TrackedRow(user, key, listing_id) ==
    IF user # 0
    THEN {r \in recent : r.user = user /\ r.listing = listing_id}
    ELSE {r \in recent : r.session_key = key /\ r.listing = listing_id}

\* the lookup of the listing (l.118-124), then the loop is entered (l.127-130)
TrackBegin(user, session_key, listing_id) ==
    /\ track.pc = "idle"
    /\ track' = IF listing_id \notin DOMAIN listings
                THEN [NoTrack EXCEPT !.pc = "done", !.user = user,
                                     !.session_key = session_key,
                                     !.listing_id = listing_id, !.status = 404]
                ELSE [NoTrack EXCEPT !.pc = "try", !.user = user,
                                     !.session_key = session_key,
                                     !.listing_id = listing_id,
                                     !.retry_delay = initial_retry_delay]
    /\ UNCHANGED <<taxVars, listVars, fnVars, concVars, recent, togVars>>

\* the attempt goes through: update_or_create and the response (l.132-153)
TrackWrite ==
    LET key == IF track.user = 0 /\ track.session_key = 0
               THEN FreshSessionKey ELSE track.session_key
        found == TrackedRow(track.user, key, track.listing_id)
        row == IF track.user # 0
               THEN [user |-> track.user, session_key |-> 0, listing |-> track.listing_id]
               ELSE [user |-> 0, session_key |-> key, listing |-> track.listing_id]
    IN  /\ track.pc = "try"
        /\ recent' = (recent \ found) \cup {row}
        /\ track' = [track EXCEPT !.pc = "done",
                                  !.session_key = key,
                                  !.outcomes = Append(@, "ok"),
                                  !.status = IF found = {} THEN 201 ELSE 200]
        /\ UNCHANGED <<taxVars, listVars, fnVars, concVars, togVars>>

\* the attempt raises OperationalError "database is locked" and another attempt
\* is left (l.155-156)
TrackLocked ==
    /\ track.pc = "try"
    /\ track.attempt < max_retries - 1
    /\ track' = [track EXCEPT !.pc = "sleep", !.outcomes = Append(@, "locked")]
    /\ UNCHANGED <<taxVars, listVars, fnVars, concVars, recent, togVars>>

\* the attempt raises and the exception leaves the view (l.160-162, or an
\* exception that is no OperationalError): the caller gets a 500
TrackRaises(outcome) ==
    /\ track.pc = "try"
    /\ outcome = "locked" => track.attempt >= max_retries - 1
    /\ track' = [track EXCEPT !.pc = "done", !.outcomes = Append(@, outcome),
                              !.status = 500]
    /\ UNCHANGED <<taxVars, listVars, fnVars, concVars, recent, togVars>>

\* one write attempt, with whatever the database answers
TrackAttempt ==
    \/ TrackWrite
    \/ TrackLocked
    \/ \E outcome \in {"locked", "operational_error", "other_error"} : TrackRaises(outcome)

\* time.sleep(retry_delay); retry_delay *= 2; the loop moves on (l.158-159, 130)
TrackSleep ==
    /\ track.pc = "sleep"
    /\ track' = [track EXCEPT !.pc = "try",
                              !.slept = Append(@, track.retry_delay),
                              !.retry_delay = NextDelay(track.retry_delay),
                              !.attempt = @ + 1]
    /\ UNCHANGED <<taxVars, listVars, fnVars, concVars, recent, togVars>>

\* the client has read the response
TrackDone ==
    /\ track.pc = "done"
    /\ track' = NoTrack
    /\ nreq' = nreq + 1
    /\ UNCHANGED <<taxVars, listings, attrvals, media, nextListingId, nextMediaId, now, last,
                   fnVars, concVars, recent, togVars>>

\* ------------------------------ specification: recently-viewed tracking
\* one listing exists, created by user 1
InitTrack ==
    /\ cats = FixedCats
    /\ attrs = FixedAttrs
    /\ treeResp = NoTreeResp
    /\ schemaResp = NoSchemaResp
    /\ now = 2
    /\ listings = (1 :> [NewListing(1, CreateBase) EXCEPT !.refreshed_at = 1])
    /\ attrvals = {}
    /\ media = {}
    /\ nextListingId = 2
    /\ nextMediaId = 1
    /\ nreq = 0
    /\ last = NoLast
    /\ IdleInit

NextTrack ==
    \/ /\ nreq < MaxTrackRequests
       /\ \E user \in {0} \cup Users, session_key \in {0, 1}, listing_id \in {1, 9} :
              /\ user # 0 => session_key = 0
              /\ TrackBegin(user, session_key, listing_id)
    \/ TrackAttempt
    \/ TrackSleep
    \/ TrackDone

\* the worker that serves the request keeps running: an attempt that can be
\* made is made, a sleep ends
SpecTrack ==
    /\ InitTrack
    /\ [][NextTrack]_vars
    /\ WF_vars(TrackAttempt)
    /\ WF_vars(TrackSleep)

\* ------------------------------------- claims: recently-viewed tracking
\* the attempts made so far: none but the last met anything but a lock
OnlyLocksBeforeLast ==
    \A i \in 1..(Len(track.outcomes) - 1) : track.outcomes[i] = "locked"

TrackInv ==
    /\ Len(track.outcomes) <= 3
    /\ OnlyLocksBeforeLast
    /\ \A i, j \in 1..Len(track.slept) : i < j => track.slept[i] < track.slept[j]
    /\ track.pc \in {"try", "sleep"} =>
           /\ \A i \in 1..Len(track.outcomes) : track.outcomes[i] = "locked"
           /\ Len(track.slept) =
                  IF track.pc = "try" THEN Len(track.outcomes) ELSE Len(track.outcomes) - 1
    /\ (track.pc = "done" /\ track.status # 404) =>
           LET n == Len(track.outcomes)
           IN  /\ n \in 1..3
               /\ Len(track.slept) = n - 1
               /\ (track.status \in {200, 201}) = (track.outcomes[n] = "ok")
               /\ (track.status = 500) = (track.outcomes[n] # "ok")
               /\ track.outcomes[n] = "locked" => n = 3

\* C19: a tracking request that reaches the write makes between 1 and 3
\* attempts; it sleeps before each retry, each time longer than before; it
\* answers at the first attempt that goes through; a lock met by the third
\* attempt, and any other error at once, reaches the caller; and it ends.
Thm_C19 ==
    /\ []TrackInv
    /\ (track.pc \in {"try", "sleep"}) ~> (track.pc = "done")

\* locked three times: two sleeps of 100 ms and 200 ms, then the error
Wit_C19 ==
    /\ track.pc = "done"
    /\ track.outcomes = <<"locked", "locked", "locked">>
    /\ track.slept = <<100, 200>>
    /\ track.status = 500

\* ------------------------------------ specification: listing status
\* Listing.Status values the views name
StatusChoices == {"active", "paused", "closed"}

\* one listing of user 1 exists, in any status
InitStatus ==
    /\ cats = FixedCats
    /\ attrs = FixedAttrs
    /\ treeResp = NoTreeResp
    /\ schemaResp = NoSchemaResp
    /\ now = 2
    /\ \E st \in StatusChoices :
           listings = (1 :> [NewListing(1, CreateBase) EXCEPT !.refreshed_at = 1,
                                                              !.status = st])
    /\ attrvals = {}
    /\ media = {}
    /\ nextListingId = 2
    /\ nextMediaId = 1
    /\ nreq = 0
    /\ last = NoLast
    /\ IdleInit

NextStatus ==
    \/ /\ nreq < MaxStatusRequests
       /\ \E user \in Users, pk \in 1..nextListingId : Activate(user, pk)
    \/ /\ nreq < MaxStatusRequests
       /\ \E user \in Users, pk \in 1..nextListingId : Deactivate(user, pk)
    \/ /\ nreq < MaxStatusRequests
       /\ \E user \in Users, pk \in 1..nextListingId : Refresh(user, pk)

SpecStatus == InitStatus /\ [][NextStatus]_vars

\* ------------------------------------------------ claims: listing status
\* C20: a step changes the status of a listing only as activate (paused or
\* closed to active) or deactivate (anything to paused) of that listing; an
\* owner's activate of a listing that is neither paused nor closed answers 400
\* and leaves its status and refreshed_at as they were.
Thm_C20 ==
    [][/\ DOMAIN listings' = DOMAIN listings
       /\ \A i \in DOMAIN listings :
              /\ listings'[i].status # listings[i].status
                     => /\ i = last'.pk
                        /\ \/ /\ last'.op = "activate"
                              /\ listings[i].status \in {"paused", "closed"}
                              /\ listings'[i].status = "active"
                           \/ /\ last'.op = "deactivate"
                              /\ listings'[i].status = "paused"
              /\ (/\ Handles("activate")
                  /\ i = last'.pk
                  /\ listings[i].user = last'.user
                  /\ listings[i].status \notin {"paused", "closed"})
                     => /\ last'.status = 400
                        /\ listings'[i].status = listings[i].status
                        /\ listings'[i].refreshed_at = listings[i].refreshed_at]_vars

\* the owner's activate of an active listing is refused
Wit_C20 ==
    /\ last.op = "activate"
    /\ last.status = 400
    /\ last.pk \in DOMAIN listings
    /\ listings[last.pk].user = last.user
    /\ listings[last.pk].status = "active"

\* ------------------------------------------------------ favorites/views.py
\* the lookup never finds the row: get_or_create always creates
Favorite_never_found(user, listing_id) == {}

\* the rows the lookup of get_or_create(user=..., listing=...) matches (l.43-46)
Favorite(user, listing_id) ==
    {f \in favorites : f.user = user /\ f.listing = listing_id}

\* FavoriteListingToggleView.post
Toggle(user, listing_id) ==
    LET found == Favorite(user, listing_id)
        answer == [user |-> user, listing_id |-> listing_id, before |-> favorites]
    IN  /\ IF listing_id \notin DOMAIN listings
           THEN /\ toggle' = answer @@ [status |-> 404, favorited |-> FALSE]
                /\ UNCHANGED <<favorites, nextFavoriteId>>
           ELSE IF found = {}
           THEN \* created: the new row stays
                /\ favorites' = favorites \cup
                       {[id |-> nextFavoriteId, user |-> user, listing |-> listing_id]}
                /\ nextFavoriteId' = nextFavoriteId + 1
                /\ toggle' = answer @@ [status |-> 201, favorited |-> TRUE]
           ELSE IF Cardinality(found) = 1
           THEN \* not created: favorite.delete()
                /\ favorites' = favorites \ found
                /\ toggle' = answer @@ [status |-> 200, favorited |-> FALSE]
                /\ UNCHANGED nextFavoriteId
           ELSE \* get() raises MultipleObjectsReturned, the caller gets a 500
                /\ toggle' = answer @@ [status |-> 500, favorited |-> FALSE]
                /\ UNCHANGED <<favorites, nextFavoriteId>>
        /\ nreq' = nreq + 1
        /\ UNCHANGED <<taxVars, listings, attrvals, media, nextListingId, nextMediaId,
                       now, last, fnVars, concVars, track, recent>>

\* --------------------------------------- specification: favorite toggle
\* two listings exist, one of each user
InitToggle ==
    /\ cats = FixedCats
    /\ attrs = FixedAttrs
    /\ treeResp = NoTreeResp
    /\ schemaResp = NoSchemaResp
    /\ now = 2
    /\ listings = (1 :> [NewListing(1, CreateBase) EXCEPT !.refreshed_at = 1]) @@
                  (2 :> [NewListing(2, CreateBase) EXCEPT !.refreshed_at = 1])
    /\ attrvals = {}
    /\ media = {}
    /\ nextListingId = 3
    /\ nextMediaId = 1
    /\ nreq = 0
    /\ last = NoLast
    /\ IdleInit

\* the requests name one of the listings or a listing that does not exist
NextToggle ==
    /\ nreq < MaxToggleRequests
    /\ \E user \in Users, listing_id \in {1, 2, 9} : Toggle(user, listing_id)

SpecToggle == InitToggle /\ [][NextToggle]_vars

\* ----------------------------------------------- claims: favorite toggle
\* the (user, listing) pairs that are favorites in table t
FavoritePairs(t) == {<<f.user, f.listing>> : f \in t}

\* what holds after a toggle has answered
ToggleInv ==
    /\ Cardinality(favorites) = Cardinality(FavoritePairs(favorites))
    /\ toggle.status # 0 =>
           IF toggle.listing_id \in DOMAIN listings
           THEN /\ toggle.status \in {200, 201}
                /\ toggle.favorited =
                       (<<toggle.user, toggle.listing_id>> \in FavoritePairs(favorites))
                /\ toggle.favorited =
                       (<<toggle.user, toggle.listing_id>> \notin FavoritePairs(toggle.before))
                /\ \A p \in FavoritePairs(favorites) \cup FavoritePairs(toggle.before) :
                       p # <<toggle.user, toggle.listing_id>>
                           => (p \in FavoritePairs(favorites)
                                   <=> p \in FavoritePairs(toggle.before))
           ELSE /\ toggle.status = 404
                /\ favorites = toggle.before

\* a toggle that follows a toggle of the same user and listing
SecondToggle ==
    /\ nreq' = nreq + 1
    /\ toggle.status # 0
    /\ toggle'.user = toggle.user
    /\ toggle'.listing_id = toggle.listing_id
    /\ toggle.listing_id \in DOMAIN listings

\* C21: with toggles handled one after another, a toggle of an existing listing
\* answers favorited = whether the user's favorite record of it exists after the
\* call, which is the opposite of before the call, and leaves every other
\* favorite as it was; no (user, listing) pair ever has more than one record;
\* a toggle of a listing that does not exist answers 404 and leaves the table
\* as it was; the second of two consecutive toggles of the same user and
\* listing leaves the set of favorites the first one found.
Thm_C21 ==
    /\ []ToggleInv
    /\ [][SecondToggle => FavoritePairs(favorites') = FavoritePairs(toggle.before)]_vars

\* user 1 has toggled listing 1 on and off again, while user 2's favorite stays
Wit_C21 ==
    /\ toggle.user = 1
    /\ toggle.listing_id = 1
    /\ toggle.status = 200
    /\ ~toggle.favorited
    /\ FavoritePairs(toggle.before) = {<<1, 1>>, <<2, 1>>}
    /\ FavoritePairs(favorites) = {<<2, 1>>}

\* ------------------------------------------------- claims: media reorder
\* the ids of the media rows of listing pk
MediaIdsOf(pk) == {m.id : m \in {x \in media : x.listing = pk}}

\* C22: an owner's reorder whose media_ids is not a list, or lists anything that
\* is not the id of a media row of the listing, answers 400 and leaves every
\* media row as it was; any other reorder gives each listed media row an index
\* at which it is listed as its order and leaves the order of every other media
\* row, of this listing or of another, as it was.
Cex_C22 ==
    [][(Handles("media_reorder") /\ Owned(last'.user, last'.pk)) =>
          LET media_ids == Get(last'.data, "media_ids", ListV(<<>>))
              listed(m) == {i \in 1..Len(media_ids.l) : media_ids.l[i] = IntV(m.id)}
          IN  IF \/ media_ids.k # "list"
                 \/ \E i \in 1..Len(media_ids.l) :
                        media_ids.l[i] \notin {IntV(id) : id \in MediaIdsOf(last'.pk)}
              THEN /\ last'.status = 400
                   /\ media' = media
              ELSE /\ Cardinality(media') = Cardinality(media)
                   /\ \A m \in media :
                          \E n \in media' :
                              /\ n.id = m.id
                              /\ n.listing = m.listing
                              /\ IF m.listing = last'.pk /\ listed(m) # {}
                                 THEN \E i \in listed(m) : n.order = i - 1
                                 ELSE n.order = m.order]_vars

====
